---- MODULE Spec2Model ----
(***************************************************************************)
(* Verification model of src/Birth_pred.py: the birth-chart engine of the  *)
(* Vedic astrology reading generator (class VedicAstrology).               *)
(*                                                                         *)
(* Number representation.  The program computes with Python floats.  An    *)
(* angle is modelled as an integer count of grid units of 1e-5 degree.     *)
(* Sums, differences, floor divisions and remainders of grid values are    *)
(* reproduced exactly; the two linear formulas with long decimal           *)
(* coefficients (ayanamsa, mean node) are evaluated exactly and rounded    *)
(* down to the grid.  The two places where IEEE rounding changes a result  *)
(* on the grid are kept:                                                   *)
(*   - x % 360 for a negative x smaller in magnitude than half an ulp of   *)
(*     360 (e.g. -1e-20) yields 360.0, not a value below 360;              *)
(*   - 360 / 27 is the double 13.333333333333334, slightly more than 40/3, *)
(*     so a longitude that is an exact multiple of a quarter span falls    *)
(*     into the division below it.                                         *)
(* A float argument is a record [units, eps]: units grid units plus a      *)
(* residue of sign eps (-1, 0, 1) far below the resolution of the grid.    *)
(* Durations are whole days; years are counted in quarter-days             *)
(* (1461 quarter-days = 365.25 days = one year).                           *)
(***************************************************************************)
EXTENDS Integers, Sequences, FiniteSets, TLC

(***************************************************************************)
(* Units                                                                   *)
(***************************************************************************)
\* grid units in one degree
Grid == 10^5

\* quarter-days in one 365.25-day year (src/Birth_pred.py:168)
YearUnits == 1461

Deg(d) == d * Grid

Flt(u) == [units |-> u, eps |-> 0]

\* a negative double far below the grid resolution, such as -1e-20
NegTiny == [units |-> 0, eps |-> -1]

\* a positive double far below the grid resolution, such as 1e-20
PosTiny == [units |-> 0, eps |-> 1]

(***************************************************************************)
(* Class tables                                                            *)
(***************************************************************************)
SIGNS ==
  << "Aries", "Taurus", "Gemini", "Cancer", "Leo", "Virgo",
     "Libra", "Scorpio", "Sagittarius", "Capricorn", "Aquarius", "Pisces" >>

NAKSHATRAS ==
  << "Ashwini", "Bharani", "Krittika", "Rohini", "Mrigashirsha", "Ardra",
     "Punarvasu", "Pushya", "Ashlesha", "Magha", "Purva Phalguni", "Uttara Phalguni",
     "Hasta", "Chitra", "Swati", "Vishakha", "Anuradha", "Jyeshtha",
     "Mula", "Purva Ashadha", "Uttara Ashadha", "Shravana", "Dhanishta", "Shatabhisha",
     "Purva Bhadrapada", "Uttara Bhadrapada", "Revati" >>

\* mutant of DASHA_PERIODS: Venus given 19 years
DashaPeriodsShortVenus ==
  [ Ketu |-> 7, Venus |-> 19, Sun |-> 6, Moon |-> 10, Mars |-> 7,
    Rahu |-> 18, Jupiter |-> 16, Saturn |-> 19, Mercury |-> 17 ]

DASHA_PERIODS ==
  [ Ketu |-> 7, Venus |-> 20, Sun |-> 6, Moon |-> 10, Mars |-> 7,
    Rahu |-> 18, Jupiter |-> 16, Saturn |-> 19, Mercury |-> 17 ]

dasha_sequence ==
  << "Ketu", "Venus", "Sun", "Moon", "Mars", "Rahu", "Jupiter", "Saturn", "Mercury" >>

\* mutant of nakshatra_lords: the last lord under another name
NakshatraLordsLastRenamed ==
  << "Ketu", "Venus", "Sun", "Moon", "Mars", "Rahu", "Jupiter", "Saturn", "Mercury",
     "Ketu", "Venus", "Sun", "Moon", "Mars", "Rahu", "Jupiter", "Saturn", "Mercury",
     "Ketu", "Venus", "Sun", "Moon", "Mars", "Rahu", "Jupiter", "Saturn", "Budha" >>

nakshatra_lords ==
  << "Ketu", "Venus", "Sun", "Moon", "Mars", "Rahu", "Jupiter", "Saturn", "Mercury",
     "Ketu", "Venus", "Sun", "Moon", "Mars", "Rahu", "Jupiter", "Saturn", "Mercury",
     "Ketu", "Venus", "Sun", "Moon", "Mars", "Rahu", "Jupiter", "Saturn", "Mercury" >>

(***************************************************************************)
(* Python list indexing: 0-based, negative indices count from the end,     *)
(* anything else raises IndexError.                                        *)
(***************************************************************************)
InRange(list, i) == (-Len(list) <= i) /\ (i < Len(list))

PyIndex(list, i) == IF i >= 0 THEN list[i + 1] ELSE list[Len(list) + i + 1]

(***************************************************************************)
(* Python float modulo by a positive integer number of degrees.            *)
(***************************************************************************)
PyMod(x, m) ==
  IF x.eps < 0 /\ x.units % m = 0 THEN m
  ELSE x.units % m

(***************************************************************************)
(* get_sign_and_degree (src/Birth_pred.py:114-124)                         *)
(***************************************************************************)
get_sign_and_degree(longitude) ==
  LET lon      == PyMod(longitude, Deg(360))
      sign_num == lon \div Deg(30)
      degree   == lon % Deg(30)
  IN  IF InRange(SIGNS, sign_num)
      THEN [ err |-> "none", sign |-> PyIndex(SIGNS, sign_num),
             degree |-> degree, sign_num |-> sign_num ]
      ELSE [ err |-> "IndexError", sign |-> "", degree |-> degree,
             sign_num |-> sign_num ]

(***************************************************************************)
(* get_nakshatra (src/Birth_pred.py:196-205)                               *)
(* nakshatra_span is the double just above 40/3 degrees and the quarter    *)
(* span is exactly a fourth of it, so longitude // span and                *)
(* (longitude % span) // (span / 4) are the quotient and remainder by 4 of *)
(* the number of whole quarter spans (each a hair above 10/3 degrees)      *)
(* that fit into the longitude.                                            *)
(***************************************************************************)
QuarterSpans(longitude) ==
  LET t == 3 * longitude
  IN  IF longitude > 0 /\ t % Deg(10) = 0
      THEN (t \div Deg(10)) - 1
      ELSE t \div Deg(10)

get_nakshatra(longitude) ==
  LET q               == QuarterSpans(longitude)
      nakshatra_index == q \div 4
      pada            == (q % 4) + 1
  IN  IF InRange(NAKSHATRAS, nakshatra_index)
      THEN [ err |-> "none", name |-> PyIndex(NAKSHATRAS, nakshatra_index),
             index |-> nakshatra_index, pada |-> pada ]
      ELSE [ err |-> "IndexError", name |-> "", index |-> nakshatra_index,
             pada |-> pada ]

(***************************************************************************)
(* datetime arithmetic (Python's proleptic Gregorian calendar).  A         *)
(* datetime is [year, month, day, hour].                                   *)
(***************************************************************************)
IsLeap(y) == (y % 4 = 0) /\ ((y % 100 # 0) \/ (y % 400 = 0))

DaysInMonth(y, m) ==
  IF m = 2 THEN (IF IsLeap(y) THEN 29 ELSE 28)
  ELSE IF m \in {4, 6, 9, 11} THEN 30 ELSE 31

DaysBeforeYear(y) ==
  LET p == y - 1 IN (p * 365) + (p \div 4) - (p \div 100) + (p \div 400)

RECURSIVE DaysBeforeMonth(_, _)
DaysBeforeMonth(y, m) ==
  IF m = 1 THEN 0 ELSE DaysBeforeMonth(y, m - 1) + DaysInMonth(y, m - 1)

ToOrdinal(dt) == DaysBeforeYear(dt.year) + DaysBeforeMonth(dt.year, dt.month) + dt.day

DateTime(y, m, d, h) == [year |-> y, month |-> m, day |-> d, hour |-> h]

\* (a - b).days: timedelta normalises to 0 <= seconds < 86400, so the day
\* count is the floor of the difference, not its truncation
\* mutant of TimedeltaDays: the day count truncated toward zero
TimedeltaDaysTruncated(a, b) ==
  LET hours == ((ToOrdinal(a) * 24) + a.hour) - ((ToOrdinal(b) * 24) + b.hour)
  IN  IF hours >= 0 THEN hours \div 24 ELSE 0 - ((0 - hours) \div 24)

TimedeltaDays(a, b) ==
  (((ToOrdinal(a) * 24) + a.hour) - ((ToOrdinal(b) * 24) + b.hour)) \div 24

\* datetime(1900, 1, 1) (src/Birth_pred.py:106)
Epoch == DateTime(1900, 1, 1, 0)

(***************************************************************************)
(* calculate_ayanamsa (src/Birth_pred.py:96-101)                           *)
(*   year = y + (m - 1) / 12 + (d - 1) / 365.25                            *)
(*   ayanamsa = 23.85 + (year - 1900) * 0.013888889                        *)
(* With the year counted in 1/5844 parts (1/12 = 487/5844 and              *)
(* 1/365.25 = 16/5844) the value in grid units is                          *)
(*   2385000 + (5844 * Y + r) * 13888889 / 58440000,   Y = y - 1900,       *)
(*   r = 487 * (m - 1) + 16 * (d - 1),                                     *)
(* rounded down; the division is carried out in parts to stay within       *)
(* 32-bit integers.                                                        *)
(***************************************************************************)
\* mutant of calculate_ayanamsa: the day of the month counted in a 360-day
\* year, (d - 1) / 360 in place of (d - 1) / 365.25
AyanamsaYearOf360Days(date) ==
  LET Y == date.year - 1900
      r == (487 * (date.month - 1)) + ((487 * (date.day - 1)) \div 30)
      A == (Y * 1388) + ((Y * 8889) \div 10000)
      a == (Y * 8889) % 10000
  IN  2385000 + A
        + (((r * 1388) + (((5844 * a) + (8889 * r)) \div 10000)) \div 5844)

calculate_ayanamsa(date) ==
  LET Y == date.year - 1900
      r == (487 * (date.month - 1)) + (16 * (date.day - 1))
      A == (Y * 1388) + ((Y * 8889) \div 10000)
      a == (Y * 8889) % 10000
  IN  2385000 + A
        + (((r * 1388) + (((5844 * a) + (8889 * r)) \div 10000)) \div 5844)

(***************************************************************************)
(* calculate_lunar_nodes (src/Birth_pred.py:103-112)                       *)
(*   mean_node = 125.044522 - 0.0529539222 * days_since_epoch              *)
(* in grid units: (1250445220000 - 529539222 * days) / 100000, rounded     *)
(* down.                                                                   *)
(***************************************************************************)
MeanNode(days_since_epoch) ==
  (12504452 - (5295 * days_since_epoch))
    + ((20000 - (39222 * days_since_epoch)) \div 100000)

\* mutant of calculate_lunar_nodes: ketu = rahu + 180 without the % 360
LunarNodesKetuNotWrapped(date) ==
  LET days_since_epoch == TimedeltaDays(date, Epoch)
      mean_node        == MeanNode(days_since_epoch)
      rahu             == mean_node % Deg(360)
      ketu             == rahu + Deg(180)
  IN  [rahu |-> rahu, ketu |-> ketu]

calculate_lunar_nodes(date) ==
  LET days_since_epoch == TimedeltaDays(date, Epoch)
      mean_node        == MeanNode(days_since_epoch)
      rahu             == mean_node % Deg(360)
      ketu             == (rahu + Deg(180)) % Deg(360)
  IN  [rahu |-> rahu, ketu |-> ketu]

(***************************************************************************)
(* Charts: a chart is a function from body names to entries                *)
(* [sign, degree, sign_num]; {} is the function with empty domain.         *)
(***************************************************************************)
EmptyDict == [k \in {} |-> 0]

EphemBodies == << "Sun", "Moon", "Mercury", "Venus", "Mars", "Jupiter", "Saturn" >>

ChartKeys == << "Sun", "Moon", "Mercury", "Venus", "Mars", "Jupiter", "Saturn",
                "Rahu", "Ketu" >>

Range(seq) == { seq[i] : i \in 1..Len(seq) }

Entry(r) == [sign |-> r.sign, degree |-> r.degree, sign_num |-> r.sign_num]

(***************************************************************************)
(* calculate_current_dasha (src/Birth_pred.py:150-194)                     *)
(***************************************************************************)
\* birth_moon.get('degree', 0) + birth_moon.get('sign_num', 0) * 30, with
\* birth_moon = self.birth_chart.get('Moon', {})
\* mutant of MoonLongitude: the signs counted from 1
MoonLongitudeSignsFromOne(chart) ==
  IF "Moon" \in DOMAIN chart
  THEN chart["Moon"].degree + ((chart["Moon"].sign_num + 1) * Deg(30))
  ELSE 0

\* mutant of MoonLongitude: the entry of the Sun is read
MoonLongitudeFromSun(chart) ==
  IF "Sun" \in DOMAIN chart
  THEN chart["Sun"].degree + (chart["Sun"].sign_num * Deg(30))
  ELSE 0

MoonLongitude(chart) ==
  IF "Moon" \in DOMAIN chart
  THEN chart["Moon"].degree + (chart["Moon"].sign_num * Deg(30))
  ELSE 0

\* mutant of StartIndex: the position counted from 1, as enumerate(..., 1) would
StartIndexFromOne(starting_dasha) ==
  IF \E i \in 1..Len(dasha_sequence) : dasha_sequence[i] = starting_dasha
  THEN CHOOSE i \in 1..Len(dasha_sequence) :
          /\ dasha_sequence[i] = starting_dasha
          /\ \A j \in 1..(i - 1) : dasha_sequence[j] # starting_dasha
  ELSE -1

\* the first loop: the position of starting_dasha in dasha_sequence, or -1
\* when the loop ends with start_index unassigned
StartIndex(starting_dasha) ==
  IF \E i \in 1..Len(dasha_sequence) : dasha_sequence[i] = starting_dasha
  THEN (CHOOSE i \in 1..Len(dasha_sequence) :
          /\ dasha_sequence[i] = starting_dasha
          /\ \A j \in 1..(i - 1) : dasha_sequence[j] # starting_dasha) - 1
  ELSE -1

\* mutant of Exceeds: >= in place of >
ExceedsOrEquals(total_years, elapsed_days) ==
  (total_years * YearUnits) >= (4 * elapsed_days)

\* elapsed_years = days / 365.25, so  T > elapsed_years  iff
\* T * 1461 > 4 * days
Exceeds(total_years, elapsed_days) ==
  (total_years * YearUnits) > (4 * elapsed_days)

\* mutant of Walk: remaining_years measured from the period's own length,
\* leaving out the periods already walked past
RECURSIVE WalkForgetsTotal(_, _, _, _)
WalkForgetsTotal(i, total_elapsed, start_index, elapsed_days) ==
  IF i >= 9
  THEN [found |-> FALSE, mahadasha |-> "", remaining_years |-> 0]
  ELSE LET planet_index == (start_index + i) % 9
           planet       == dasha_sequence[planet_index + 1]
           period_years == DASHA_PERIODS[planet]
       IN  IF (total_elapsed + period_years) * YearUnits > 4 * elapsed_days
           THEN [ found |-> TRUE, mahadasha |-> planet,
                  remaining_years |-> (period_years * YearUnits) - (4 * elapsed_days) ]
           ELSE WalkForgetsTotal(i + 1, total_elapsed + period_years, start_index,
                                 elapsed_days)

\* mutant of Walk: a negative elapsed time is taken as zero
RECURSIVE WalkClampedToZero(_, _, _, _)
WalkClampedToZero(i, total_elapsed, start_index, elapsed_days) ==
  LET clamped == IF elapsed_days < 0 THEN 0 ELSE elapsed_days
  IN  IF i >= 9
      THEN [found |-> FALSE, mahadasha |-> "", remaining_years |-> 0]
      ELSE LET planet_index == (start_index + i) % 9
               planet       == dasha_sequence[planet_index + 1]
               period_years == DASHA_PERIODS[planet]
           IN  IF Exceeds(total_elapsed + period_years, clamped)
               THEN [ found |-> TRUE, mahadasha |-> planet,
                      remaining_years |->
                        ((total_elapsed + period_years) * YearUnits) - (4 * clamped) ]
               ELSE WalkClampedToZero(i + 1, total_elapsed + period_years, start_index,
                                      clamped)

\* the second loop, from iteration i with total_elapsed accumulated so far;
\* remaining_years is returned in quarter-days (1/1461 year)
RECURSIVE Walk(_, _, _, _)
Walk(i, total_elapsed, start_index, elapsed_days) ==
  IF i >= 9
  THEN [found |-> FALSE, mahadasha |-> "", remaining_years |-> 0]
  ELSE LET planet_index == (start_index + i) % 9
           planet       == dasha_sequence[planet_index + 1]
           period_years == DASHA_PERIODS[planet]
       IN  IF Exceeds(total_elapsed + period_years, elapsed_days)
           THEN [ found |-> TRUE, mahadasha |-> planet,
                  remaining_years |->
                    ((total_elapsed + period_years) * YearUnits) - (4 * elapsed_days) ]
           ELSE Walk(i + 1, total_elapsed + period_years, start_index, elapsed_days)

DashaError(e) ==
  [err |-> e, mahadasha |-> "", remaining_years |-> 0, birth_nakshatra |-> ""]

calculate_current_dasha(chart, birth_date, current_date) ==
  LET moon_nakshatra == get_nakshatra(MoonLongitude(chart))
  IN  IF moon_nakshatra.err # "none" THEN DashaError(moon_nakshatra.err)
      ELSE IF ~InRange(nakshatra_lords, moon_nakshatra.index)
      THEN DashaError("IndexError")
      ELSE
        LET starting_dasha == PyIndex(nakshatra_lords, moon_nakshatra.index)
            elapsed_days   == TimedeltaDays(current_date, birth_date)
            start_index    == StartIndex(starting_dasha)
        IN  IF start_index < 0 THEN DashaError("UnboundLocalError")
            ELSE
              LET w == Walk(0, 0, start_index, elapsed_days)
              IN  IF ~w.found THEN DashaError("UnboundLocalError")
                  ELSE [ err |-> "none", mahadasha |-> w.mahadasha,
                         remaining_years |-> w.remaining_years,
                         birth_nakshatra |-> moon_nakshatra.name ]

(***************************************************************************)
(* calculate_planetary_positions (src/Birth_pred.py:77-94): the chart      *)
(* entry of one key, from the raw ephemeris longitudes (already converted  *)
(* to degrees) and the birth datetime.                                     *)
(***************************************************************************)
Sidereal(raw, ayanamsa) == Flt(raw - ayanamsa)

NodeLongitude(key, birth_dt) ==
  IF key = "Rahu" THEN calculate_lunar_nodes(birth_dt).rahu
  ELSE calculate_lunar_nodes(birth_dt).ketu

\* mutant of PlanetEntry: the ayanamsa subtracted from the nodes as well
PlanetEntryAllSidereal(key, raw, birth_dt) ==
  IF key \in Range(EphemBodies)
  THEN get_sign_and_degree(Sidereal(raw[key], calculate_ayanamsa(birth_dt)))
  ELSE get_sign_and_degree(
         Sidereal(NodeLongitude(key, birth_dt), calculate_ayanamsa(birth_dt)))

PlanetEntry(key, raw, birth_dt) ==
  IF key \in Range(EphemBodies)
  THEN get_sign_and_degree(Sidereal(raw[key], calculate_ayanamsa(birth_dt)))
  ELSE get_sign_and_degree(Flt(NodeLongitude(key, birth_dt)))

calculate_planetary_positions(raw, birth_dt) ==
  [ key \in Range(ChartKeys) |-> Entry(PlanetEntry(key, raw, birth_dt)) ]

(***************************************************************************)
(* Bounds of the model and the inputs drawn within them                    *)
(***************************************************************************)
\* get_sign_and_degree / get_nakshatra arguments range over
\* -MaxArgDeg .. MaxArgDeg degrees
MaxArgDeg == 400

\* number of half-day steps of a calendar walk
MaxWalkSteps == 900

\* birth years of the dasha calls
FirstBirthYear == 1900

LastBirthYear == 2027

\* float arguments: every whole degree, one grid unit below and above it,
\* and the two sub-resolution values around zero
ArgLongitudes ==
  { Flt(Deg(d) + f) : d \in (-MaxArgDeg)..MaxArgDeg, f \in {-1, 0, 1} }
    \cup {NegTiny, PosTiny}

\* first datetimes of the calendar walks: before the epoch, in a February
\* of a non-leap century year, the date of the spec's scenario, and the end
\* of a year before a leap year
StartDates ==
  { DateTime(1899, 12, 30, 0), DateTime(1900, 2, 27, 12),
    DateTime(1990, 1, 15, 0), DateTime(2023, 12, 30, 12) }

\* datetime.now() (src/Birth_pred.py:167)
Nows == { DateTime(2026, 11, 6, 0), DateTime(2026, 11, 6, 12) }

DashaBirths ==
  { DateTime(y, 11, d, h) : y \in FirstBirthYear..LastBirthYear, d \in {6, 7}, h \in {0, 12} }

\* the ephemeris provider's answers, in grid units, for the bodies of a sky
SkyTable ==
  << [ Sun |-> Deg(295), Moon |-> Deg(45), Mercury |-> Deg(10), Venus |-> Deg(359) + 99999,
       Mars |-> Deg(120), Jupiter |-> Deg(25), Saturn |-> Deg(200) + 1 ],
     [ Sun |-> Deg(30), Moon |-> Deg(222) + 50000, Mercury |-> Deg(24), Venus |-> Deg(60),
       Mars |-> 0, Jupiter |-> Deg(180), Saturn |-> Deg(333) ] >>

Ephem(sky, body) == SkyTable[sky][body]

\* rising longitudes out of atan2, in (-180, 180] degrees
AscLongs == { -Deg(90), Deg(175) }

ReadingBirths ==
  { DateTime(1990, 1, 15, 12), DateTime(1899, 12, 31, 12),
    DateTime(2024, 2, 29, 0), DateTime(2030, 6, 1, 0) }

BirthDetails == [ birth_date : ReadingBirths, sky : 1..Len(SkyTable) ]

\* charts an object can hold when calculate_current_dasha is called: none
\* yet, or one built by calculate_planetary_positions with the Moon at a
\* raw longitude of a multiple of five degrees
MoonSky(x) == [ b \in Range(EphemBodies) |-> IF b = "Moon" THEN x ELSE Ephem(1, b) ]

DashaCharts ==
  {EmptyDict} \cup
  { calculate_planetary_positions(MoonSky(Deg(5 * k)), DateTime(1990, 1, 15, 12)) :
      k \in 0..71 }

(***************************************************************************)
(* get_coordinates (src/Birth_pred.py:462-483).  A str is the sequence of  *)
(* its characters; a coordinate is a whole number of 1e-4 degrees, the     *)
(* resolution of the table.                                                *)
(***************************************************************************)
UPPERCASE ==
  <<
     "A", "B", "C", "D", "E", "F", "G", "H", "I", "J", "K", "L", "M",
     "N", "O", "P", "Q", "R", "S", "T", "U", "V", "W", "X", "Y", "Z"
  >>

LOWERCASE ==
  <<
     "a", "b", "c", "d", "e", "f", "g", "h", "i", "j", "k", "l", "m",
     "n", "o", "p", "q", "r", "s", "t", "u", "v", "w", "x", "y", "z"
  >>

\* str.lower(): every upper-case letter becomes its lower-case letter, every
\* other character stays
LowerChar(c) ==
  IF \E k \in 1..Len(UPPERCASE) : UPPERCASE[k] = c
  THEN LOWERCASE[CHOOSE k \in 1..Len(UPPERCASE) : UPPERCASE[k] = c]
  ELSE c

Lower(s) == [i \in 1..Len(s) |-> LowerChar(s[i])]

UpperChar(c) ==
  IF \E k \in 1..Len(LOWERCASE) : LOWERCASE[k] = c
  THEN UPPERCASE[CHOOSE k \in 1..Len(LOWERCASE) : LOWERCASE[k] = c]
  ELSE c

Upper(s) == [i \in 1..Len(s) |-> UpperChar(s[i])]

\* the dict of lines 465-481: (latitude, longitude) by lower-case city name
city_coords ==
  (<< "m", "u", "m", "b", "a", "i" >> :> << 190760, 728777 >>) @@
  (<< "d", "e", "l", "h", "i" >> :> << 287041, 771025 >>) @@
  (<< "b", "a", "n", "g", "a", "l", "o", "r", "e" >> :> << 129716, 775946 >>) @@
  (<< "c", "h", "e", "n", "n", "a", "i" >> :> << 130827, 802707 >>) @@
  (<< "k", "o", "l", "k", "a", "t", "a" >> :> << 225726, 883639 >>) @@
  (<< "h", "y", "d", "e", "r", "a", "b", "a", "d" >> :> << 173850, 784867 >>) @@
  (<< "p", "u", "n", "e" >> :> << 185204, 738567 >>) @@
  (<< "a", "h", "m", "e", "d", "a", "b", "a", "d" >> :> << 230225, 725714 >>) @@
  (<< "j", "a", "i", "p", "u", "r" >> :> << 269124, 757873 >>) @@
  (<< "l", "u", "c", "k", "n", "o", "w" >> :> << 268467, 809462 >>) @@
  (<< "n", "e", "w", " ", "y", "o", "r", "k" >> :> << 407128, -740060 >>) @@
  (<< "l", "o", "n", "d", "o", "n" >> :> << 515074, -1278 >>) @@
  (<< "t", "o", "k", "y", "o" >> :> << 356762, 1396503 >>) @@
  (<< "s", "y", "d", "n", "e", "y" >> :> << -338688, 1512093 >>) @@
  (<< "t", "o", "r", "o", "n", "t", "o" >> :> << 436532, -793832 >>)

\* mutant of get_coordinates: the name is looked up as given, not lower-cased
GetCoordinatesCaseSensitive(city_name) ==
  IF city_name \in DOMAIN city_coords
  THEN city_coords[city_name]
  ELSE << 287041, 771025 >>

get_coordinates(city_name) ==
  LET city_lower == Lower(city_name)
  IN  IF city_lower \in DOMAIN city_coords
      THEN city_coords[city_lower]
      ELSE << 287041, 771025 >>

\* names no entry of the table matches
UnknownNames ==
  { << "A", "t", "l", "a", "n", "t", "i", "s" >>, << >>, << "d", "e", "l", "h", "i", " " >>, << "n", "e", "w", "y", "o", "r", "k" >>, << "P", "a", "r", "i", "s" >> }

\* the names get_coordinates is called with: every city of the table in
\* lower case, in upper case and with any one letter in upper case, and the
\* unknown names
PlaceNames ==
  UNION { {c, Upper(c)} \cup { [c EXCEPT ![i] = UpperChar(c[i])] : i \in 1..Len(c) } :
          c \in DOMAIN city_coords }
    \cup UnknownNames

(***************************************************************************)
(* State                                                                   *)
(***************************************************************************)
VARIABLES
  birth_chart,    \* self.birth_chart
  current_dasha,  \* self.current_dasha
  pc,             \* position of the generate_complete_reading call in progress
  bd,             \* its birth_details
  raw,            \* ephemeris longitudes computed so far (sun .. saturn)
  planets,        \* the local dict of calculate_planetary_positions
  ascendant,      \* the local of generate_complete_reading
  ret,            \* what the last completed call returned or raised
  other           \* the locals of a second caller of the object, while
                  \* the first one runs

vars == << birth_chart, current_dasha, pc, bd, raw, planets, ascendant, ret, other >>

NoCall == [op |-> "none"]

NoBirth == [birth_date |-> Epoch, sky |-> 0]

NoEntry == [sign |-> "", degree |-> 0, sign_num |-> 0]

\* main creates one object per run and calls it once (lines 545-551): the
\* object has no second caller
NoCaller == [pc |-> "none"]

\* VedicAstrology.__init__ (src/Birth_pred.py:49-52)
Init ==
  /\ birth_chart = EmptyDict
  /\ current_dasha = EmptyDict
  /\ pc = "idle"
  /\ bd = NoBirth
  /\ raw = EmptyDict
  /\ planets = EmptyDict
  /\ ascendant = NoEntry
  /\ ret = NoCall
  /\ other = NoCaller

frame == << pc, bd, raw, planets, ascendant, other >>

object == << birth_chart, current_dasha >>

(***************************************************************************)
(* Calls of the pure methods on an object                                  *)
(***************************************************************************)
CallGetSignAndDegree ==
  /\ ret = NoCall
  /\ \E x \in ArgLongitudes :
       ret' = [op |-> "get_sign_and_degree", arg |-> x, val |-> get_sign_and_degree(x)]
  /\ UNCHANGED << object, frame >>

CallGetNakshatra ==
  /\ ret = NoCall
  /\ \E x \in ArgLongitudes :
       ret' = [op |-> "get_nakshatra", arg |-> x, val |-> get_nakshatra(x.units)]
  /\ UNCHANGED << object, frame >>

NextNormalizer == CallGetSignAndDegree \/ CallGetNakshatra

SpecNormalizer == Init /\ [][NextNormalizer]_vars

(***************************************************************************)
(* calculate_ayanamsa and calculate_lunar_nodes along a walk through the   *)
(* calendar in steps of twelve hours                                       *)
(***************************************************************************)
HalfDayLater(dt) ==
  IF dt.hour < 12 THEN [dt EXCEPT !.hour = dt.hour + 12]
  ELSE IF dt.day < DaysInMonth(dt.year, dt.month)
       THEN DateTime(dt.year, dt.month, dt.day + 1, dt.hour - 12)
  ELSE IF dt.month < 12
       THEN DateTime(dt.year, dt.month + 1, 1, dt.hour - 12)
  ELSE DateTime(dt.year + 1, 1, 1, dt.hour - 12)

Computed(dt) ==
  [date |-> dt, ayanamsa |-> calculate_ayanamsa(dt), nodes |-> calculate_lunar_nodes(dt)]

StartWalk ==
  /\ ret = NoCall
  /\ \E dt \in StartDates :
       ret' = [op |-> "calendar", steps |-> 0, first |-> Computed(dt),
               prev |-> Computed(dt), cur |-> Computed(dt)]
  /\ UNCHANGED << object, frame >>

StepWalk ==
  /\ ret.op = "calendar"
  /\ ret.steps < MaxWalkSteps
  /\ ret' = [ret EXCEPT !.steps = ret.steps + 1, !.prev = ret.cur,
                        !.cur = Computed(HalfDayLater(ret.cur.date))]
  /\ UNCHANGED << object, frame >>

NextCalendar == StartWalk \/ StepWalk

SpecCalendar == Init /\ [][NextCalendar]_vars

(***************************************************************************)
(* calculate_current_dasha called on an object holding any chart it can    *)
(* hold                                                                    *)
(***************************************************************************)
InitDasha ==
  /\ birth_chart \in DashaCharts
  /\ current_dasha = EmptyDict
  /\ pc = "idle"
  /\ bd = NoBirth
  /\ raw = EmptyDict
  /\ planets = EmptyDict
  /\ ascendant = NoEntry
  /\ ret = NoCall
  /\ other = NoCaller

CallCurrentDasha ==
  /\ ret = NoCall
  /\ \E birth_date \in DashaBirths, current_date \in Nows :
       ret' = [ op |-> "calculate_current_dasha",
                birth_date |-> birth_date, current_date |-> current_date,
                elapsed_days |-> TimedeltaDays(current_date, birth_date),
                val |-> calculate_current_dasha(birth_chart, birth_date, current_date) ]
  /\ UNCHANGED << object, frame >>

NextDasha == CallCurrentDasha

SpecDasha == InitDasha /\ [][NextDasha]_vars

(***************************************************************************)
(* calculate_current_dasha called day after day for one birth, on an       *)
(* object that holds the chart of that birth: datetime.now() (line 167)    *)
(* advances from the birth datetime by MaxClockDays days.                  *)
(***************************************************************************)
\* 120 years of days from ClockBirth
MaxClockDays == 43830

ClockBirth == DateTime(1906, 11, 7, 0)

\* one chart for each of the nine starting planets
ClockCharts ==
  { calculate_planetary_positions(MoonSky(Deg(30 + (13 * m))), ClockBirth) : m \in 0..8 }

NextDay(dt) == HalfDayLater(HalfDayLater(dt))

DashaAt(current_date) ==
  [ op |-> "calculate_current_dasha",
    birth_date |-> ClockBirth, current_date |-> current_date,
    elapsed_days |-> TimedeltaDays(current_date, ClockBirth),
    val |-> calculate_current_dasha(birth_chart, ClockBirth, current_date) ]

InitClock ==
  /\ birth_chart \in ClockCharts
  /\ current_dasha = EmptyDict
  /\ pc = "idle"
  /\ bd = NoBirth
  /\ raw = EmptyDict
  /\ planets = EmptyDict
  /\ ascendant = NoEntry
  /\ ret = NoCall
  /\ other = NoCaller

ClockStart ==
  /\ ret = NoCall
  /\ ret' = DashaAt(ClockBirth)
  /\ UNCHANGED << object, frame >>

ClockTick ==
  /\ ret.op = "calculate_current_dasha"
  /\ ret.elapsed_days < MaxClockDays
  /\ ret' = DashaAt(NextDay(ret.current_date))
  /\ UNCHANGED << object, frame >>

NextClock == ClockStart \/ ClockTick

SpecClock == InitClock /\ [][NextClock]_vars

(***************************************************************************)
(* generate_complete_reading (src/Birth_pred.py:392-460), one step per     *)
(* ephemeris request, per dict assignment and per statement of lines       *)
(* 396-398.  An exception ends the call; the locals are dropped and the    *)
(* object keeps what was assigned to it before.                            *)
(***************************************************************************)
Put(dict, key, value) ==
  [ k \in (DOMAIN dict) \cup {key} |-> IF k = key THEN value ELSE dict[k] ]

\* the call raises e out of generate_complete_reading
Raised(e) ==
  /\ pc' = "idle"
  /\ bd' = NoBirth
  /\ raw' = EmptyDict
  /\ planets' = EmptyDict
  /\ ascendant' = NoEntry
  /\ ret' = [op |-> "generate_complete_reading", err |-> e, at |-> pc,
             birth_details |-> bd]

GenBegin ==
  /\ pc = "idle"
  /\ \E b \in BirthDetails : bd' = b
  /\ pc' = "ephem"
  /\ raw' = EmptyDict
  /\ planets' = EmptyDict
  /\ ascendant' = NoEntry
  /\ ret' = NoCall
  /\ UNCHANGED object
  /\ UNCHANGED other

\* lines 69-75: ephem.Sun(observer) .. ephem.Saturn(observer), in order
NextBody(fetched) == EphemBodies[Cardinality(DOMAIN fetched) + 1]

EphemDone(fetched) == Cardinality(DOMAIN fetched) = Len(EphemBodies)

EphemOk ==
  /\ pc = "ephem"
  /\ raw' = Put(raw, NextBody(raw), Ephem(bd.sky, NextBody(raw)))
  /\ pc' = IF EphemDone(raw') THEN "fill" ELSE "ephem"
  /\ UNCHANGED << object, bd, planets, ascendant, ret >>
  /\ UNCHANGED other

EphemFail ==
  /\ pc = "ephem"
  /\ Raised("EphemerisError")
  /\ UNCHANGED object
  /\ UNCHANGED other

\* lines 81-92: planets['Sun'] = ... planets['Ketu'] = ..., in order
NextKey(filled) == ChartKeys[Cardinality(DOMAIN filled) + 1]

\* mutant of FillDone: the dict is returned before its last assignment
FillDoneBeforeKetu(filled) == Cardinality(DOMAIN filled) = Len(ChartKeys) - 1

\* line 94 is reached after the assignment of line 92
FillDone(filled) == Cardinality(DOMAIN filled) = Len(ChartKeys)

Fill ==
  /\ pc = "fill"
  /\ LET key == NextKey(planets)
         e   == PlanetEntry(key, raw, bd.birth_date)
     IN  IF e.err # "none"
         THEN Raised(e.err)
         ELSE /\ planets' = Put(planets, key, Entry(e))
              /\ pc' = IF FillDone(planets') THEN "store" ELSE "fill"
              /\ UNCHANGED << bd, raw, ascendant, ret >>
  /\ UNCHANGED object
  /\ UNCHANGED other

\* line 396: self.birth_chart = <the dict returned>
StoreChart ==
  /\ pc = "store"
  /\ birth_chart' = planets
  /\ pc' = "ascendant"
  /\ UNCHANGED << current_dasha, bd, raw, planets, ascendant, ret >>
  /\ UNCHANGED other

\* line 397: calculate_ascendant (lines 126-148); the rising longitude is
\* whatever atan2 makes of the provider's sidereal time
AscendantOk ==
  /\ pc = "ascendant"
  /\ \E asc_long \in AscLongs :
       LET e == get_sign_and_degree(Flt(asc_long - calculate_ayanamsa(bd.birth_date)))
       IN  IF e.err # "none"
           THEN Raised(e.err)
           ELSE /\ ascendant' = Entry(e)
                /\ pc' = "dasha"
                /\ UNCHANGED << bd, raw, planets, ret >>
  /\ UNCHANGED object
  /\ UNCHANGED other

AscendantFail ==
  /\ pc = "ascendant"
  /\ Raised("EphemerisError")
  /\ UNCHANGED object
  /\ UNCHANGED other

DashaOf(d) ==
  [ mahadasha |-> d.mahadasha, remaining_years |-> d.remaining_years,
    birth_nakshatra |-> d.birth_nakshatra ]

\* line 398: self.current_dasha = self.calculate_current_dasha(birth_details)
StoreDasha ==
  /\ pc = "dasha"
  /\ \E current_date \in Nows :
       LET d == calculate_current_dasha(birth_chart, bd.birth_date, current_date)
       IN  IF d.err # "none"
           THEN Raised(d.err) /\ UNCHANGED object
           ELSE /\ current_dasha' = DashaOf(d)
                /\ pc' = "assemble"
                /\ UNCHANGED << birth_chart, bd, raw, planets, ascendant, ret >>
  /\ UNCHANGED other

\* lines 400-460: the text, of which the header fields are kept
Assemble ==
  /\ pc = "assemble"
  /\ ret' = [ op |-> "generate_complete_reading", err |-> "none", birth_details |-> bd,
              rising_sign |-> ascendant.sign,
              mahadasha |-> current_dasha.mahadasha,
              birth_nakshatra |-> current_dasha.birth_nakshatra ]
  /\ pc' = "idle"
  /\ bd' = NoBirth
  /\ raw' = EmptyDict
  /\ planets' = EmptyDict
  /\ ascendant' = NoEntry
  /\ UNCHANGED object
  /\ UNCHANGED other

Next ==
  \/ GenBegin
  \/ EphemOk
  \/ EphemFail
  \/ Fill
  \/ StoreChart
  \/ AscendantOk
  \/ AscendantFail
  \/ StoreDasha
  \/ Assemble

Spec == Init /\ [][Next]_vars

(***************************************************************************)
(* One object called by two callers (threads) at once.  The interpreter    *)
(* runs one caller at a time and may switch between any two of the steps   *)
(* above; the locals of the caller that waits are kept in other, the       *)
(* attributes of the object (lines 50-51) are the same for both.           *)
(***************************************************************************)
IdleCaller ==
  [pc |-> "idle", bd |-> NoBirth, raw |-> EmptyDict, planets |-> EmptyDict,
   ascendant |-> NoEntry]

\* the running caller is suspended and the waiting one resumes
Switch ==
  /\ other # NoCaller
  /\ other' = [pc |-> pc, bd |-> bd, raw |-> raw, planets |-> planets,
               ascendant |-> ascendant]
  /\ pc' = other.pc
  /\ bd' = other.bd
  /\ raw' = other.raw
  /\ planets' = other.planets
  /\ ascendant' = other.ascendant
  /\ UNCHANGED << object, ret >>

\* the object is owned by one caller, or shared with a second one
InitShared ==
  /\ birth_chart = EmptyDict
  /\ current_dasha = EmptyDict
  /\ pc = "idle"
  /\ bd = NoBirth
  /\ raw = EmptyDict
  /\ planets = EmptyDict
  /\ ascendant = NoEntry
  /\ ret = NoCall
  /\ other \in {NoCaller, IdleCaller}

\* the two requests made of a shared object: different births under
\* different skies
SharedBirthDetails ==
  { [birth_date |-> DateTime(1990, 1, 15, 12), sky |-> 1],
    [birth_date |-> DateTime(2024, 2, 29, 0), sky |-> 2] }

\* the running caller calls generate_complete_reading
SharedBegin ==
  /\ pc = "idle"
  /\ \E b \in SharedBirthDetails : bd' = b
  /\ pc' = "ephem"
  /\ raw' = EmptyDict
  /\ planets' = EmptyDict
  /\ ascendant' = NoEntry
  /\ ret' = NoCall
  /\ UNCHANGED << object, other >>

NextShared ==
  \/ SharedBegin
  \/ EphemOk
  \/ EphemFail
  \/ Fill
  \/ StoreChart
  \/ AscendantOk
  \/ AscendantFail
  \/ StoreDasha
  \/ Assemble
  \/ Switch

SpecShared == InitShared /\ [][NextShared]_vars

(***************************************************************************)
(* A sequential series of calls of the public methods of one object:       *)
(* generate_complete_reading step by step as above, and, between two       *)
(* readings, calculate_planetary_positions, calculate_ascendant and        *)
(* calculate_current_dasha called directly.  The direct calls assign       *)
(* nothing to the object.                                                  *)
(***************************************************************************)
DirectPositions ==
  /\ pc = "idle"
  /\ \E b \in BirthDetails :
       \/ ret' = [ op |-> "calculate_planetary_positions", birth_details |-> b,
                   err |-> "EphemerisError", val |-> EmptyDict ]
       \/ LET sky == SkyTable[b.sky]
              bad == { k \in Range(ChartKeys) :
                         PlanetEntry(k, sky, b.birth_date).err # "none" }
          IN  ret' = [ op |-> "calculate_planetary_positions", birth_details |-> b,
                       err |-> IF bad = {} THEN "none" ELSE "IndexError",
                       val |-> IF bad = {}
                               THEN calculate_planetary_positions(sky, b.birth_date)
                               ELSE EmptyDict ]
  /\ UNCHANGED << object, frame >>

DirectAscendant ==
  /\ pc = "idle"
  /\ \E b \in BirthDetails :
       \/ ret' = [ op |-> "calculate_ascendant", birth_details |-> b,
                   err |-> "EphemerisError", val |-> NoEntry ]
       \/ \E asc_long \in AscLongs :
            LET e == get_sign_and_degree(Flt(asc_long - calculate_ayanamsa(b.birth_date)))
            IN  ret' = [ op |-> "calculate_ascendant", birth_details |-> b,
                         err |-> e.err,
                         val |-> IF e.err = "none" THEN Entry(e) ELSE NoEntry ]
  /\ UNCHANGED << object, frame >>

\* lines 152-153: the Moon is read from self.birth_chart as the object holds it
DirectDasha ==
  /\ pc = "idle"
  /\ \E birth_date \in ReadingBirths, current_date \in Nows :
       ret' = [ op |-> "calculate_current_dasha",
                birth_date |-> birth_date, current_date |-> current_date,
                elapsed_days |-> TimedeltaDays(current_date, birth_date),
                val |-> calculate_current_dasha(birth_chart, birth_date, current_date) ]
  /\ UNCHANGED << object, frame >>

NextSeries ==
  \/ Next
  \/ DirectPositions
  \/ DirectAscendant
  \/ DirectDasha

SpecSeries == Init /\ [][NextSeries]_vars

(***************************************************************************)
(* get_coordinates called once with a place name                           *)
(***************************************************************************)
CallGetCoordinates ==
  /\ ret = NoCall
  /\ \E name \in PlaceNames :
       ret' = [op |-> "get_coordinates", city_name |-> name,
               val |-> get_coordinates(name)]
  /\ UNCHANGED << object, frame >>

NextGeocoder == CallGetCoordinates

SpecGeocoder == Init /\ [][NextGeocoder]_vars

(***************************************************************************)
(* Properties                                                              *)
(***************************************************************************)

\* ---- the Angle/Sign normalizer ----------------------------------------

\* C1: for every input longitude x (negative, zero, positive, >= 360)
\* get_sign_and_degree(x) returns sign_num in 0..11, 0 <= degree < 30,
\* sign_num * 30 + degree congruent to x modulo 360, and sign = SIGNS[sign_num].
C1_SignAndDegreeTotal ==
  (ret.op = "get_sign_and_degree") =>
    /\ ret.val.err = "none"
    /\ ret.val.sign_num \in 0..11
    /\ 0 <= ret.val.degree /\ ret.val.degree < Deg(30)
    /\ ((ret.val.sign_num * Deg(30)) + ret.val.degree - ret.arg.units) % Deg(360) = 0
    /\ ret.val.sign = SIGNS[ret.val.sign_num + 1]

\* C2: get_nakshatra is total: for every input longitude, negative values and
\* values >= 360 included, it returns without error a mansion index in 0..26
\* and a pada in 1..4.
C2_NakshatraTotal ==
  (ret.op = "get_nakshatra") =>
    /\ ret.val.err = "none"
    /\ ret.val.index \in 0..26
    /\ ret.val.pada \in 1..4

\* ---- the dasha sequencer ----------------------------------------------

DashaCall == ret.op = "calculate_current_dasha"

\* elapsed_years in quarter-days
ElapsedQ == 4 * ret.elapsed_days

\* the planet the birth Moon's mansion seeds the walk with
BirthMansion == get_nakshatra(MoonLongitude(birth_chart)).index

SeedPlanet == nakshatra_lords[BirthMansion + 1]

CyclePos(p) == CHOOSE i \in 0..8 : dasha_sequence[i + 1] = p

\* the k-th planet of the cycle counted from planet p (k = 0 is p itself)
CycleFrom(p, k) == dasha_sequence[((CyclePos(p) + k) % 9) + 1]

\* years covered by the first k periods counted from planet p
RECURSIVE AccumulatedYears(_, _)
AccumulatedYears(p, k) ==
  IF k = 0 THEN 0
  ELSE AccumulatedYears(p, k - 1) + DASHA_PERIODS[CycleFrom(p, k - 1)]

\* accumulated-start <= elapsedYears < accumulated-end for the k-th period
InInterval(p, k, q) ==
  /\ AccumulatedYears(p, k) * YearUnits <= q
  /\ q < AccumulatedYears(p, k + 1) * YearUnits

\* C3: for every starting planet and every elapsedYears in [0, 120) the walk
\* selects exactly one active planet, the one whose interval satisfies
\* accumulated-start <= elapsedYears < accumulated-end, and
\* remaining_years = accumulated-end - elapsedYears lies in
\* [0, periodLength(active planet)].
C3_ExactlyOneActive ==
  (DashaCall /\ 0 <= ElapsedQ /\ ElapsedQ < 120 * YearUnits) =>
    LET hits == { k \in 0..8 : InInterval(SeedPlanet, k, ElapsedQ) }
    IN  /\ ret.val.err = "none"
        /\ Cardinality(hits) = 1
        /\ \A k \in hits :
             /\ ret.val.mahadasha = CycleFrom(SeedPlanet, k)
             /\ ret.val.remaining_years =
                  (AccumulatedYears(SeedPlanet, k + 1) * YearUnits) - ElapsedQ
        /\ 0 <= ret.val.remaining_years
        /\ ret.val.remaining_years <= DASHA_PERIODS[ret.val.mahadasha] * YearUnits

\* a call whose elapsed time is exactly the start of a later period of the walk
C3_Witness ==
  /\ DashaCall
  /\ ret.val.err = "none"
  /\ \E k \in 1..8 :
       /\ ElapsedQ = AccumulatedYears(SeedPlanet, k) * YearUnits
       /\ ret.val.mahadasha = CycleFrom(SeedPlanet, k)

\* C4: for every elapsedYears >= 0, elapsedYears >= 120 included,
\* calculate_current_dasha completes and returns a mahadasha planet and a
\* remaining_years value; for elapsedYears >= 120 the walk ends at the last
\* planet of its single pass.
C4_DashaNeverFails ==
  (DashaCall /\ ElapsedQ >= 0) =>
    /\ ret.val.err = "none"
    /\ (ElapsedQ >= 120 * YearUnits => ret.val.mahadasha = CycleFrom(SeedPlanet, 8))

\* C9: for every mansion index m in 0..26 the starting planet is
\* nakshatra_lords[m], and for every elapsedYears with
\* 0 <= elapsedYears < periodLength(nakshatra_lords[m]) the active mahadasha
\* is that planet with remaining_years = periodLength - elapsedYears.
C9_SeededByBirthMansion ==
  DashaCall =>
    /\ BirthMansion \in 0..26
    /\ (0 <= ElapsedQ /\ ElapsedQ < DASHA_PERIODS[SeedPlanet] * YearUnits) =>
         /\ ret.val.err = "none"
         /\ ret.val.mahadasha = nakshatra_lords[BirthMansion + 1]
         /\ ret.val.remaining_years = (DASHA_PERIODS[SeedPlanet] * YearUnits) - ElapsedQ

\* mansion 0 (Ashwini), a little over three years after birth: Ketu, with a
\* little under four years remaining
C9_Witness ==
  /\ DashaCall
  /\ BirthMansion = 0
  /\ ret.elapsed_days = 1096
  /\ ret.val.mahadasha = "Ketu"
  /\ ret.val.remaining_years = (4 * YearUnits) - 1

\* C10 (as stated): every DashaState returned has 0 <= r < periodLength(active
\* planet), for every birth date and every now, now = birth date included.
C10_RemainingBelowPeriod ==
  (DashaCall /\ ret.val.err = "none") =>
    /\ 0 <= ret.val.remaining_years
    /\ ret.val.remaining_years < DASHA_PERIODS[ret.val.mahadasha] * YearUnits

\* C10 (amended): every DashaState returned has r > 0, and
\* r <= periodLength(active planet) when the birth date is not after now; the
\* bound is reached (r = periodLength) when no whole day has elapsed since birth.
C10_RemainingWithinPeriod ==
  (DashaCall /\ ret.val.err = "none") =>
    /\ 0 < ret.val.remaining_years
    /\ (ElapsedQ >= 0 =>
          ret.val.remaining_years <= DASHA_PERIODS[ret.val.mahadasha] * YearUnits)
    /\ (ElapsedQ = 0 =>
          ret.val.remaining_years = DASHA_PERIODS[ret.val.mahadasha] * YearUnits)

\* a call on the day of birth: the whole period remains
C10_Witness ==
  /\ DashaCall
  /\ ret.elapsed_days = 0
  /\ ret.val.err = "none"
  /\ ret.val.remaining_years = DASHA_PERIODS[SeedPlanet] * YearUnits


\* ---- the ayanamsa corrector and the lunar node estimator --------------

CalendarCall == ret.op = "calendar"

\* C5: for every date, before, at and after the 1900-01-01 epoch,
\* calculate_lunar_nodes returns rahu and ketu in [0, 360) with Ketu exactly
\* opposite Rahu: ketu = (rahu + 180) mod 360.
C5_KetuAntipodal ==
  CalendarCall =>
    LET n == ret.cur.nodes
    IN  /\ 0 <= n.rahu /\ n.rahu < Deg(360)
        /\ 0 <= n.ketu /\ n.ketu < Deg(360)
        /\ n.ketu = (IF n.rahu < Deg(180) THEN n.rahu + Deg(180) ELSE n.rahu - Deg(180))

\* a date after the epoch whose mean node is negative and whose Rahu lies in
\* the upper half circle, so that Ketu wraps past 360
C5_Witness ==
  /\ CalendarCall
  /\ TimedeltaDays(ret.cur.date, Epoch) > 0
  /\ MeanNode(TimedeltaDays(ret.cur.date, Epoch)) < 0
  /\ ret.cur.nodes.rahu >= Deg(180)
  /\ ret.cur.nodes.ketu < Deg(180)

\* the nodes of a datetime before the epoch
C5_BeforeEpoch ==
  /\ CalendarCall
  /\ TimedeltaDays(ret.cur.date, Epoch) < 0
  /\ ret.cur.nodes.ketu = ret.cur.nodes.rahu + Deg(180)

\* C6: calculate_ayanamsa is strictly increasing in the calendar date, across
\* month ends and year ends too, and is exactly 23.85 at 1900-01-01.
C6_AyanamsaIncreasing ==
  CalendarCall =>
    /\ (ToOrdinal(ret.prev.date) < ToOrdinal(ret.cur.date)
          => ret.prev.ayanamsa < ret.cur.ayanamsa)
    /\ (ToOrdinal(ret.first.date) < ToOrdinal(ret.cur.date)
          => ret.first.ayanamsa < ret.cur.ayanamsa)
    /\ (ToOrdinal(ret.cur.date) = ToOrdinal(Epoch) => ret.cur.ayanamsa = 2385000)

\* the step over the end of 1899 onto the epoch
C6_Witness ==
  /\ CalendarCall
  /\ ret.prev.date = DateTime(1899, 12, 31, 12)
  /\ ret.cur.date = Epoch
  /\ ret.prev.ayanamsa < ret.cur.ayanamsa
  /\ ret.cur.ayanamsa = 2385000

\* the step over the end of a 31-day month
C6_MonthEnd ==
  /\ CalendarCall
  /\ ret.prev.date.day = 31
  /\ ret.cur.date.day = 1
  /\ ret.cur.date.month = ret.prev.date.month + 1


\* ---- the chart builder ------------------------------------------------

NineKeys == Range(ChartKeys)

\* the chart of the call in progress has been stored and its locals are live
ChartStored == pc \in {"ascendant", "dasha", "assemble"}

\* the absolute longitude a chart entry stands for
LongitudeOf(e) == (e.sign_num * Deg(30)) + e.degree

\* C7: chart construction is all-or-nothing: what calculate_planetary_positions
\* returns has exactly the nine keys; when the ephemeris provider fails for a
\* body the call fails with an error, and no chart with fewer than nine
\* entries is ever returned or stored in birth_chart.
C7_ChartAllOrNothing ==
  /\ [](/\ (pc = "store" => DOMAIN planets = NineKeys)
        /\ (DOMAIN birth_chart = NineKeys \/ birth_chart = EmptyDict))
  /\ [][ (pc = "ephem" /\ pc' = "idle") =>
           /\ ret'.op = "generate_complete_reading"
           /\ ret'.err = "EphemerisError"
           /\ birth_chart' = birth_chart ]_vars

\* a call that failed in an ephemeris request on an object that held the
\* chart of an earlier call
C7_Witness ==
  /\ pc = "idle"
  /\ ret.op = "generate_complete_reading"
  /\ ret.err = "EphemerisError"
  /\ ret.at = "ephem"
  /\ DOMAIN birth_chart = NineKeys

\* the general part of C8: the seven bodies are entered at raw longitude minus
\* ayanamsa, Rahu and Ketu at the node longitude with nothing subtracted
EntriesAsSpecified ==
  /\ \A b \in Range(EphemBodies) :
       /\ birth_chart[b] =
            Entry(get_sign_and_degree(Flt(raw[b] - calculate_ayanamsa(bd.birth_date))))
       /\ LongitudeOf(birth_chart[b]) =
            (raw[b] - calculate_ayanamsa(bd.birth_date)) % Deg(360)
  /\ birth_chart["Rahu"] =
       Entry(get_sign_and_degree(Flt(calculate_lunar_nodes(bd.birth_date).rahu)))
  /\ birth_chart["Ketu"] =
       Entry(get_sign_and_degree(Flt(calculate_lunar_nodes(bd.birth_date).ketu)))
  /\ LongitudeOf(birth_chart["Rahu"]) = calculate_lunar_nodes(bd.birth_date).rahu
  /\ LongitudeOf(birth_chart["Ketu"]) = calculate_lunar_nodes(bd.birth_date).ketu

\* the scenario of C8: birth date 1990-01-15, raw Moon longitude 45 degrees
Scenario ==
  /\ bd.birth_date.year = 1990 /\ bd.birth_date.month = 1 /\ bd.birth_date.day = 15
  /\ raw["Moon"] = Deg(45)

\* |x - y| <= tol, all in grid units
Near(x, y, tol) == (y - tol <= x) /\ (x <= y + tol)

\* one hundredth of a degree
Hundredth == Grid \div 100

\* C8 (as stated): the entries are as specified, and in the scenario the
\* ayanamsa is approximately 25.08 and the Moon entry has sign index 0 (Aries)
\* with degree approximately 19.92 (to the hundredth of a degree).
C8_EntriesAndScenario ==
  ChartStored =>
    /\ EntriesAsSpecified
    /\ Scenario =>
         /\ Near(calculate_ayanamsa(bd.birth_date), 2508000, Hundredth)
         /\ birth_chart["Moon"].sign_num = 0
         /\ birth_chart["Moon"].sign = "Aries"
         /\ Near(birth_chart["Moon"].degree, 1992000, Hundredth)

\* C8 (amended): the entries are as specified, and in the scenario the
\* ayanamsa is approximately 25.10 and the Moon entry has sign index 0 (Aries)
\* with degree approximately 19.90.
C8_EntriesAndScenarioAmended ==
  ChartStored =>
    /\ EntriesAsSpecified
    /\ Scenario =>
         /\ Near(calculate_ayanamsa(bd.birth_date), 2510000, Hundredth)
         /\ birth_chart["Moon"].sign_num = 0
         /\ birth_chart["Moon"].sign = "Aries"
         /\ Near(birth_chart["Moon"].degree, 1990000, Hundredth)

\* the chart of the scenario, stored
C8_Witness ==
  /\ ChartStored
  /\ Scenario
  /\ birth_chart["Moon"].sign_num = 0
  /\ birth_chart["Rahu"].sign = "Libra"


\* ---- the day count of the lunar node estimator ------------------------

\* hours from 1900-01-01 00:00 to the datetime, negative before the epoch
HoursSinceEpoch(dt) == ((ToOrdinal(dt) - ToOrdinal(Epoch)) * 24) + dt.hour

WholeDaysTowardZero(hours) ==
  IF hours >= 0 THEN hours \div 24 ELSE 0 - ((0 - hours) \div 24)

WholeDaysDownward(hours) ==
  IF hours >= 0 THEN hours \div 24 ELSE 0 - (((0 - hours) + 23) \div 24)

\* C11 as stated: the nodes of every datetime are those of the mean node
\* 125.044522 - 0.0529539222 * days, days being the whole days between the
\* datetime and 1900-01-01 truncated toward zero (1899-12-31 12:00 gives 0).
C11_DaysTruncatedTowardZero ==
  CalendarCall =>
    LET days == WholeDaysTowardZero(HoursSinceEpoch(ret.cur.date))
    IN  /\ ret.cur.nodes.rahu = MeanNode(days) % Deg(360)
        /\ (ret.cur.date = DateTime(1899, 12, 31, 12) =>
              ret.cur.nodes.rahu = MeanNode(0) % Deg(360))

\* C11 amended: the nodes of every datetime, before and after the epoch and
\* at any time of day, are those of the mean node
\* 125.044522 - 0.0529539222 * days, days being the whole days between the
\* datetime and 1900-01-01 rounded downward (1899-12-31 12:00 gives -1).
C11_DaysRoundedDownward ==
  CalendarCall =>
    LET days == WholeDaysDownward(HoursSinceEpoch(ret.cur.date))
    IN  /\ ret.cur.nodes.rahu = MeanNode(days) % Deg(360)
        /\ (ret.cur.date = DateTime(1899, 12, 31, 12) =>
              /\ days = -1
              /\ ret.cur.nodes.rahu = 12504452 + 5295)

\* the nodes of 1899-12-31 12:00, half a day before the epoch
C11_Witness ==
  /\ CalendarCall
  /\ ret.cur.date = DateTime(1899, 12, 31, 12)
  /\ ret.cur.nodes.rahu = MeanNode(-1) % Deg(360)
  /\ ret.cur.nodes.rahu # MeanNode(0) % Deg(360)


\* ---- the geocoder ------------------------------------------------------

\* two names of the same length whose characters are equal or are the two
\* cases of one letter
SameIgnoringCase(a, b) ==
  /\ Len(a) = Len(b)
  /\ \A i \in 1..Len(a) :
       \/ a[i] = b[i]
       \/ \E k \in 1..Len(UPPERCASE) : {a[i], b[i]} = {UPPERCASE[k], LOWERCASE[k]}

\* C12: get_coordinates never fails: a name matching an entry of the table
\* case-insensitively returns that entry's (latitude, longitude), and every
\* other name returns the default (28.7041, 77.1025), a plain coordinate
\* pair indistinguishable from the answer for Delhi.
C12_CoordinatesOrDefault ==
  (ret.op = "get_coordinates") =>
    LET matches == { c \in DOMAIN city_coords : SameIgnoringCase(c, ret.city_name) }
    IN  /\ \A c \in matches : ret.val = city_coords[c]
        /\ (matches = {}) => (ret.val = << 287041, 771025 >>)
        /\ Len(ret.val) = 2
        /\ ret.val \in { city_coords[c] : c \in DOMAIN city_coords }

\* the unknown name "Atlantis" answered with the coordinates of Delhi
C12_Witness ==
  /\ ret.op = "get_coordinates"
  /\ ret.city_name = << "A", "t", "l", "a", "n", "t", "i", "s" >>
  /\ ret.val = city_coords[<< "d", "e", "l", "h", "i" >>]


\* ---- one object, two callers ------------------------------------------

\* the mansion of the Moon entry of a chart
MansionOfMoon(chart) == get_nakshatra(LongitudeOf(chart["Moon"])).name

\* C13: with a single owner of the object, whenever a call of
\* generate_complete_reading is about to write its narrative, the stored
\* chart is the one this call built and the stored dasha was derived from
\* this call's Moon; a state where a call's dasha derives from another
\* call's chart exists only when a second caller shares the object.
C13_SingleOwnerDerivesFromOwnChart ==
  (pc = "assemble" /\ other = NoCaller) =>
    /\ birth_chart = planets
    /\ current_dasha.birth_nakshatra = MansionOfMoon(planets)

\* two calls for different births interleaved on a shared object: the running
\* call is about to write its narrative with a dasha derived from the Moon of
\* the chart the other call stored, not from its own
C13_Witness ==
  /\ pc = "assemble"
  /\ other # NoCaller
  /\ other.pc \in {"ascendant", "dasha"}
  /\ other.bd # bd
  /\ birth_chart = other.planets
  /\ current_dasha.birth_nakshatra = MansionOfMoon(other.planets)
  /\ current_dasha.birth_nakshatra # MansionOfMoon(planets)


\* ---- the stored chart across calls ------------------------------------

\* C14: in a sequential series of calls of the public methods of one object
\* the result of each call depends only on that call's own inputs, never on
\* the chart or dasha an earlier call left in the object: a direct
\* calculate_current_dasha call returns what it returns on a fresh object,
\* and a reading reports the mansion of the Moon of its own sky.
C14_ResultsIndependentOfStoredState ==
  /\ (ret.op = "calculate_current_dasha") =>
       ret.val = calculate_current_dasha(EmptyDict, ret.birth_date, ret.current_date)
  /\ (ret.op = "generate_complete_reading" /\ ret.err = "none") =>
       ret.birth_nakshatra =
         MansionOfMoon(calculate_planetary_positions(SkyTable[ret.birth_details.sky],
                                                     ret.birth_details.birth_date))


\* ---- the tables of the dasha calculator -------------------------------

SumOfPeriods ==
  DASHA_PERIODS["Ketu"] + DASHA_PERIODS["Venus"] + DASHA_PERIODS["Sun"]
    + DASHA_PERIODS["Moon"] + DASHA_PERIODS["Mars"] + DASHA_PERIODS["Rahu"]
    + DASHA_PERIODS["Jupiter"] + DASHA_PERIODS["Saturn"] + DASHA_PERIODS["Mercury"]

\* 120 years in quarter-days
FullCycleQ == 120 * YearUnits

\* C15: the nine DASHA_PERIODS sum to exactly 120, so the pass from any
\* starting planet covers exactly [0, 120) with nine consecutive intervals:
\* the ninth interval ends at 120, every elapsedYears in [0, 120) lies in
\* exactly one interval, whose planet is returned, and 120 and beyond lie in
\* none.
C15_FullPassCoversCycle ==
  DashaCall =>
    /\ SumOfPeriods = 120
    /\ AccumulatedYears(SeedPlanet, 9) = 120
    /\ \A k \in 0..8 :
         AccumulatedYears(SeedPlanet, k) < AccumulatedYears(SeedPlanet, k + 1)
    /\ (0 <= ElapsedQ /\ ElapsedQ < FullCycleQ) =>
         /\ ret.val.err = "none"
         /\ \E k \in 0..8 :
              /\ InInterval(SeedPlanet, k, ElapsedQ)
              /\ ret.val.mahadasha = CycleFrom(SeedPlanet, k)
              /\ \A j \in 0..8 : InInterval(SeedPlanet, j, ElapsedQ) => j = k
    /\ (ElapsedQ >= FullCycleQ) =>
         /\ ret.val.err # "none"
         /\ \A k \in 0..8 : ~InInterval(SeedPlanet, k, ElapsedQ)

\* one day before 120 years, in the ninth interval of a pass that does not
\* start at the head of the cycle
C15_Witness ==
  /\ DashaCall
  /\ SeedPlanet # "Ketu"
  /\ ElapsedQ = FullCycleQ - 4
  /\ ret.val.err = "none"
  /\ ret.val.mahadasha = CycleFrom(SeedPlanet, 8)
  /\ ret.val.remaining_years = 4

\* C16: nakshatra_lords is dasha_sequence three times over
\* (lords[i] = lords[i+9] = lords[i+18] = dasha_sequence[i] for i in 0..8), so
\* the starting planet of every call is found in dasha_sequence and
\* start_index is assigned.
C16_LordsAreSequenceThrice ==
  DashaCall =>
    /\ Len(nakshatra_lords) = 27
    /\ \A i \in 0..8 :
         /\ nakshatra_lords[i + 1] = dasha_sequence[i + 1]
         /\ nakshatra_lords[i + 10] = dasha_sequence[i + 1]
         /\ nakshatra_lords[i + 19] = dasha_sequence[i + 1]
    /\ StartIndex(SeedPlanet) \in 0..8
    /\ dasha_sequence[StartIndex(SeedPlanet) + 1] = SeedPlanet
    /\ StartIndex(SeedPlanet) = BirthMansion % 9
    /\ (ElapsedQ < FullCycleQ) => ret.val.err = "none"

\* a birth Moon in the last mansion, whose lord is the last of the third
\* repetition
C16_Witness ==
  /\ DashaCall
  /\ BirthMansion = 26
  /\ SeedPlanet = "Mercury"
  /\ StartIndex(SeedPlanet) = 8
  /\ ret.val.err = "none"
  /\ ret.val.birth_nakshatra = "Revati"


\* ---- the mahadasha as 'now' advances ----------------------------------

DashaAnswered == DashaCall /\ ret.val.err = "none"

\* the place of the active planet in the pass that starts at the seed planet
PassIndex == (CyclePos(ret.val.mahadasha) - CyclePos(SeedPlanet)) % 9

\* from one day's answer to the next the active planet stays, with less
\* remaining, or gives way to its successor in the cycle exactly where the
\* accumulated periods of the pass end
PassStep ==
  \/ /\ ret'.val.mahadasha = ret.val.mahadasha
     /\ ret'.val.remaining_years < ret.val.remaining_years
     /\ ret'.val.remaining_years > 0
  \/ /\ ret'.val.mahadasha = CycleFrom(ret.val.mahadasha, 1)
     /\ PassIndex' = PassIndex + 1
     /\ ElapsedQ < AccumulatedYears(SeedPlanet, PassIndex + 1) * YearUnits
     /\ AccumulatedYears(SeedPlanet, PassIndex + 1) * YearUnits <= ElapsedQ'
     /\ ret'.val.remaining_years <= DASHA_PERIODS[ret'.val.mahadasha] * YearUnits

\* C17: for a fixed birth and starting planet, as 'now' advances from
\* elapsedYears 0 to 120 the pass starts at the starting planet, the active
\* mahadasha changes only by stepping to the next planet of the cycle
\* (Mercury wraps to Ketu), never skipping one or going back, each planet is
\* active for one contiguous interval between the accumulated sums of the
\* periods, so of the length of its DASHA_PERIODS value, and
\* remaining_years strictly decreases within an interval.
C17_SteppingThroughCycle ==
  /\ []((DashaCall /\ ElapsedQ = 0) =>
          /\ ret.val.err = "none"
          /\ ret.val.mahadasha = SeedPlanet
          /\ ret.val.remaining_years = DASHA_PERIODS[SeedPlanet] * YearUnits)
  /\ []((DashaCall /\ ElapsedQ < FullCycleQ) =>
          /\ ret.val.err = "none"
          /\ InInterval(SeedPlanet, PassIndex, ElapsedQ))
  /\ [][(DashaCall /\ ElapsedQ' < FullCycleQ) => PassStep]_vars

\* the pass that starts at the Sun, having wrapped from Mercury to Ketu, on
\* the day it enters its ninth and last interval, the one of Venus
C17_Witness ==
  /\ DashaAnswered
  /\ ret.birth_date = ClockBirth
  /\ SeedPlanet = "Sun"
  /\ PassIndex = 8
  /\ ret.val.mahadasha = "Venus"
  /\ ElapsedQ = AccumulatedYears(SeedPlanet, 8) * YearUnits
  /\ ret.val.remaining_years = DASHA_PERIODS["Venus"] * YearUnits


\* ---- a birth in the future --------------------------------------------

\* the birth datetime lies after 'now'
FutureBirth ==
  /\ DashaCall
  /\ HoursSinceEpoch(ret.current_date) < HoursSinceEpoch(ret.birth_date)

\* C18: for a birth date in the future (negative elapsedYears)
\* calculate_current_dasha neither clamps nor raises: it returns the starting
\* planet with remaining_years = periodLength(starting planet) - elapsedYears,
\* strictly greater than the period length.
C18_FutureBirthRunsPastPeriod ==
  FutureBirth =>
    /\ ElapsedQ < 0
    /\ ret.val.err = "none"
    /\ ret.val.mahadasha = SeedPlanet
    /\ ret.val.remaining_years = (DASHA_PERIODS[SeedPlanet] * YearUnits) - ElapsedQ
    /\ ret.val.remaining_years > DASHA_PERIODS[SeedPlanet] * YearUnits

\* a birth a year after 'now': a year more than Saturn's 19 remains
C18_Witness ==
  /\ FutureBirth
  /\ ret.elapsed_days = -365
  /\ SeedPlanet = "Saturn"
  /\ ret.val.mahadasha = "Saturn"
  /\ ret.val.remaining_years = (19 * YearUnits) + (4 * 365)


\* ---- the stored chart and dasha after failing calls -------------------

\* C19: after any sequence of generate_complete_reading calls on one object,
\* calls that fail part-way included, the stored chart and dasha belong to
\* the same request: current_dasha is empty or was derived from the Moon
\* entry of the stored birth_chart.
C19_StoredPairOfOneRequest ==
  (pc = "idle") =>
    \/ current_dasha = EmptyDict
    \/ /\ DOMAIN birth_chart = NineKeys
       /\ current_dasha.birth_nakshatra = MansionOfMoon(birth_chart)


\* ---- the longitude handed to get_nakshatra -----------------------------

\* the Moon longitude of the chart the object holds, 0 when it holds none
StoredMoonLongitude ==
  IF birth_chart = EmptyDict THEN 0 ELSE LongitudeOf(birth_chart["Moon"])

\* C20: in every calculate_current_dasha call, the chart being empty or
\* built by calculate_planetary_positions, the longitude passed to
\* get_nakshatra is degree + sign_num * 30 with 0 <= longitude < 360, so the
\* mansion index is in 0..26, the pada in 1..4, and neither NAKSHATRAS[index]
\* nor nakshatra_lords[index] is out of range.
C20_MoonLongitudeInRange ==
  DashaCall =>
    /\ MoonLongitude(birth_chart) = StoredMoonLongitude
    /\ 0 <= StoredMoonLongitude
    /\ StoredMoonLongitude < Deg(360)
    /\ LET m == get_nakshatra(StoredMoonLongitude)
       IN  /\ m.err = "none"
           /\ m.index \in 0..26
           /\ m.pada \in 1..4
           /\ m.index + 1 \in DOMAIN NAKSHATRAS
           /\ m.index + 1 \in DOMAIN nakshatra_lords
           /\ ret.val.err # "IndexError"
           /\ (ret.val.err = "none") => (ret.val.birth_nakshatra = NAKSHATRAS[m.index + 1])

\* a chart whose Moon lies in the last degree of the circle
C20_Witness ==
  /\ DashaCall
  /\ birth_chart # EmptyDict
  /\ birth_chart["Moon"].sign_num = 11
  /\ StoredMoonLongitude > Deg(359)
  /\ get_nakshatra(StoredMoonLongitude).index = 26
  /\ get_nakshatra(StoredMoonLongitude).pada = 4
  /\ ret.val.err = "none"

====
